---- MODULE Spec2Model ----
(***************************************************************************)
(* Multiplayer trivia game: the GameLobby and TriviaRoom components of     *)
(* every browser session (client) and the remote record store they share   *)
(* (rooms, players, gameAnswers, questions).                               *)
(*                                                                         *)
(* A handler is one action up to its first await; every await is a step of *)
(* its own (the call is "in flight" and the store answers later, with      *)
(* success or failure).  The setState calls of one handler are one batched *)
(* render; the timer effect runs as part of the render that changed one of *)
(* its dependencies.  A pending setTimeout is an entry of a bag that holds *)
(* what its closure captured; delays are not measured: a pending timeout   *)
(* or call may complete at any later moment.                               *)
(***************************************************************************)
EXTENDS Integers, Sequences, FiniteSets, Bags, TLC

\* ------------------------------------------------------------------ bounds
\* Rows of the questions table (loadGameData reads at most QuestionLimit).
NumQuestions == 2
\* startGame calls one room view may have in flight at once.
MaxStartCalls == 2
\* gameAnswers records the store may hold (submits stop after that many).
MaxAnswers == 2
\* Room records the store may hold (createRoom stops after that many).
MaxRooms == 2
\* joinRoom calls one lobby may have in flight at once.
MaxJoinCalls == 2

\* ------------------------------------------------------- program constants
QuestionTime == 15
QuestionLimit == 10
PlayerLimit == 20
RoomLimit == 10
CorrectPoints == 100

Clients == {"c1", "c2"}
Users == {"u1", "u2"}

\* The option keys of the answer buttons; "none" is selectedAnswer = null.
Options == {"A", "B", "C", "D"}
\* The answers a player is drawn to give: the correct key and a wrong one.
AnswerInputs == {"A", "B"}

\* The questions table, ordered by id; question ids are 1..NumQuestions and
\* 0 stands for currentQuestion = null.
correctAnswer(qid) == IF qid % 2 = 1 THEN "A" ELSE "B"
QuestionsTable == [i \in 1..NumQuestions |-> i]

Min(a, b) == IF a < b THEN a ELSE b

VARIABLES
    user,           \* App: the signed-in user of each client (session)
    rooms,          \* store: sequence of room records, the id is the index
    playersStore,   \* store: sequence of player records, the id is the index
    gameAnswers,    \* store: bag of gameAnswers records
    currentRoom,    \* App: id of the room each client is in, 0 = lobby
    tr,             \* TriviaRoom: the component state of each client
    loadCall,       \* TriviaRoom: where loadGameData stands
    startCalls,     \* TriviaRoom: startGame calls in flight
    submitCalls,    \* TriviaRoom: submitAnswer calls in flight / reveal timeouts
    nextTimers,     \* TriviaRoom: pending setTimeout(nextQuestion) closures
    lobby,          \* GameLobby: the component state of each client
    lobbyLoad,      \* GameLobby: whether loadRooms is in flight
    createCalls,    \* GameLobby: createRoom calls in flight
    joinCalls       \* GameLobby: joinRoom calls in flight

storeVars == <<rooms, playersStore, gameAnswers>>
lobbyVars == <<lobby, lobbyLoad, createCalls, joinCalls>>
roomVars == <<tr, loadCall, startCalls, submitCalls, nextTimers>>
vars == <<user, rooms, playersStore, gameAnswers, currentRoom, tr, loadCall,
          startCalls, submitCalls, nextTimers, lobby, lobbyLoad, createCalls,
          joinCalls>>

UserOf(c) == user[c]

\* ------------------------------------------------------------ TriviaRoom
\* The useState initial values.
InitialRoomState ==
    [players |-> <<>>, questions |-> <<>>, currentQuestion |-> 0,
     gameStatus |-> "waiting", timeLeft |-> QuestionTime,
     selectedAnswer |-> "none", hasAnswered |-> FALSE, showResults |-> FALSE,
     questionIndex |-> 0, loading |-> TRUE]

\* Variant of isHost that takes every client in the room for its host.
isHost_Anyone(c) == currentRoom[c] # 0

isHost(c) == currentRoom[c] # 0 /\ rooms[currentRoom[c]].hostUserId = UserOf(c)

Mounted(c) == currentRoom[c] # 0

\* Indices of the store's player records of room r.
RoomPlayerIds(r) == {i \in 1..Len(playersStore) : playersStore[i].roomId = r}

\* orderBy score desc (ties in store order): the ids of S, best first.
RECURSIVE SortByScoreDesc(_)
SortByScoreDesc(S) ==
    IF S = {} THEN <<>>
    ELSE LET best == CHOOSE i \in S : \A j \in S :
                        \/ playersStore[i].score > playersStore[j].score
                        \/ /\ playersStore[i].score = playersStore[j].score
                           /\ i <= j
         IN <<best>> \o SortByScoreDesc(S \ {best})

\* blink.db.players.list({where: {roomId}, orderBy: {score: 'desc'}, limit: 20})
ListPlayers(r) ==
    LET ids == SortByScoreDesc(RoomPlayerIds(r))
    IN [k \in 1..Min(Len(ids), PlayerLimit) |->
            [id |-> ids[k], userId |-> playersStore[ids[k]].userId,
             score |-> playersStore[ids[k]].score]]

\* blink.db.questions.list({orderBy: {id: 'asc'}, limit: 10})
ListQuestions == SubSeq(QuestionsTable, 1, Min(Len(QuestionsTable), QuestionLimit))

\* players.find(p => p.userId === user.id): the first match, id 0 if none.
FindPlayer(ps, u) ==
    IF \E k \in 1..Len(ps) : ps[k].userId = u
    THEN LET k == CHOOSE k \in 1..Len(ps) :
                    /\ ps[k].userId = u
                    /\ \A j \in 1..(k - 1) : ps[j].userId # u
         IN [id |-> ps[k].id, score |-> ps[k].score]
    ELSE [id |-> 0, score |-> 0]

\* The timer effect's dependency list [gameStatus, timeLeft, hasAnswered,
\* nextQuestion], nextQuestion standing for its own [questionIndex, questions].
TimerDeps(s) == <<s.gameStatus, s.timeLeft, s.hasAnswered, s.questionIndex, s.questions>>

\* The effect's else-if branch runs in the render that follows the update
\* old -> new: "time's up, show results".
TimesUp(old, new) ==
    /\ TimerDeps(old) # TimerDeps(new)
    /\ ~(new.gameStatus = "playing" /\ new.timeLeft > 0 /\ ~new.hasAnswered)
    /\ new.timeLeft = 0
    /\ ~new.hasAnswered

\* One batched update of client c's component state to new, followed by the
\* timer effect; timers is the bag of pending nextQuestion timeouts before it.
Render(c, new, timers) ==
    /\ tr' = [tr EXCEPT ![c] =
                IF TimesUp(tr[c], new) THEN [new EXCEPT !.showResults = TRUE] ELSE new]
    /\ nextTimers' = [nextTimers EXCEPT ![c] =
                IF TimesUp(tr[c], new)
                THEN timers (+) SetToBag({new.questionIndex})
                ELSE timers]

\* loadGameData: the players list answers.
LoadPlayersDone(c) ==
    /\ loadCall[c] = "players"
    /\ loadCall' = [loadCall EXCEPT ![c] = "questions"]
    /\ Render(c, [tr[c] EXCEPT !.players = ListPlayers(currentRoom[c])], nextTimers[c])
    /\ UNCHANGED <<user, lobbyVars, storeVars, currentRoom, startCalls, submitCalls>>

\* loadGameData: the questions list answers.
LoadQuestionsDone(c) ==
    /\ loadCall[c] = "questions"
    /\ loadCall' = [loadCall EXCEPT ![c] = "none"]
    /\ Render(c, [tr[c] EXCEPT !.questions = ListQuestions,
                               !.currentQuestion =
                                    IF Len(ListQuestions) > 0 THEN ListQuestions[1] ELSE @,
                               !.loading = FALSE],
              nextTimers[c])
    /\ UNCHANGED <<user, lobbyVars, storeVars, currentRoom, startCalls, submitCalls>>

\* Variant of LoadFail that ends the loading view, as a finally block would.
LoadFail_WithFinally(c) ==
    /\ loadCall[c] \in {"players", "questions"}
    /\ loadCall' = [loadCall EXCEPT ![c] = "failed"]
    /\ Render(c, [tr[c] EXCEPT !.loading = FALSE], nextTimers[c])
    /\ UNCHANGED <<user, lobbyVars, storeVars, currentRoom, startCalls, submitCalls>>

\* loadGameData: either list throws; the catch only raises a toast.
LoadFail(c) ==
    /\ loadCall[c] \in {"players", "questions"}
    /\ loadCall' = [loadCall EXCEPT ![c] = "failed"]
    /\ UNCHANGED <<user, lobbyVars, storeVars, currentRoom, tr, startCalls, submitCalls, nextTimers>>

\* nextQuestion as called by a timeout whose closure captured questionIndex = q.
NextQuestionState(s, q) ==
    IF q + 1 >= Len(s.questions)
    THEN [s EXCEPT !.gameStatus = "finished"]
    ELSE [s EXCEPT !.questionIndex = q + 1,
                   !.currentQuestion = s.questions[q + 2],
                   !.selectedAnswer = "none",
                   !.hasAnswered = FALSE,
                   !.showResults = FALSE,
                   !.timeLeft = QuestionTime]

nextQuestion(c, q) ==
    /\ BagIn(q, nextTimers[c])
    /\ Render(c, NextQuestionState(tr[c], q), nextTimers[c] (-) SetToBag({q}))
    /\ UNCHANGED <<user, lobbyVars, storeVars, currentRoom, loadCall, startCalls, submitCalls>>

\* Variant of TickGuard whose countdown keeps running after an answer.
TickGuard_IgnoresAnswer(s) == s.gameStatus = "playing" /\ s.timeLeft > 0

\* The timer effect's first branch: the 1000 ms timeout fires.
TickGuard(s) == s.gameStatus = "playing" /\ s.timeLeft > 0 /\ ~s.hasAnswered

Tick(c) ==
    /\ Mounted(c)
    /\ TickGuard(tr[c])
    /\ Render(c, [tr[c] EXCEPT !.timeLeft = @ - 1], nextTimers[c])
    /\ UNCHANGED <<user, lobbyVars, storeVars, currentRoom, loadCall, startCalls, submitCalls>>

\* The Start Game button is rendered in the waiting view for the host only.
StartButtonShown(c) ==
    /\ Mounted(c)
    /\ ~tr[c].loading
    /\ tr[c].gameStatus = "waiting"
    /\ isHost(c)

\* startGame up to its await of blink.db.rooms.update.
startGame(c) ==
    /\ StartButtonShown(c)
    /\ BagCardinality(startCalls[c]) < MaxStartCalls
    /\ startCalls' = [startCalls EXCEPT ![c] =
                        @ (+) SetToBag({[roomId |-> currentRoom[c], live |-> TRUE]})]
    /\ UNCHANGED <<user, lobbyVars, storeVars, currentRoom, tr, loadCall, submitCalls, nextTimers>>

StartedState(s) ==
    [s EXCEPT !.gameStatus = "playing", !.timeLeft = QuestionTime, !.questionIndex = 0]

\* startGame after the await: the update succeeded.
StartGameDone(c, call) ==
    /\ BagIn(call, startCalls[c])
    /\ startCalls' = [startCalls EXCEPT ![c] = @ (-) SetToBag({call})]
    /\ rooms' = [rooms EXCEPT ![call.roomId].status = "playing"]
    /\ IF call.live
       THEN Render(c, StartedState(tr[c]), nextTimers[c])
       ELSE UNCHANGED <<tr, nextTimers>>
    /\ UNCHANGED <<user, lobbyVars, playersStore, gameAnswers, currentRoom, loadCall, submitCalls>>

\* startGame after the await: the update threw.
StartGameFail(c, call) ==
    /\ BagIn(call, startCalls[c])
    /\ startCalls' = [startCalls EXCEPT ![c] = @ (-) SetToBag({call})]
    /\ UNCHANGED <<user, lobbyVars, storeVars, currentRoom, tr, loadCall, submitCalls, nextTimers>>

\* Variant of AnswerButtonsEnabled that closes the buttons when the time is up.
AnswerButtonsEnabled_TimeGuarded(s) ==
    /\ ~s.loading
    /\ s.gameStatus = "playing"
    /\ s.currentQuestion # 0
    /\ ~s.hasAnswered
    /\ s.timeLeft > 0

\* The answer buttons are rendered once the game has left 'waiting' (the
\* finished view returns earlier) and are disabled by hasAnswered alone.
AnswerButtonsEnabled(s) ==
    /\ ~s.loading
    /\ s.gameStatus = "playing"
    /\ s.currentQuestion # 0
    /\ ~s.hasAnswered

\* gameAnswers records already stored or about to be.
AnswersInFlight ==
    LET S == {<<c, call>> \in Clients \X UNION {BagToSet(submitCalls[c]) : c \in Clients} :
                    BagIn(call, submitCalls[c]) /\ call.stage = "create"}
        RECURSIVE Sum(_)
        Sum(T) == IF T = {} THEN 0
                  ELSE LET x == CHOOSE x \in T : TRUE
                       IN CopiesIn(x[2], submitCalls[x[1]]) + Sum(T \ {x})
    IN Sum(S)

\* submitAnswer up to its await of blink.db.gameAnswers.create.  The call
\* holds what its closure captured (questionIndex, currentQuestion, players)
\* and whether it was made while timeLeft > 0.
submitAnswer(c, answer) ==
    /\ Mounted(c)
    /\ AnswerButtonsEnabled(tr[c])
    /\ BagCardinality(gameAnswers) + AnswersInFlight < MaxAnswers
    /\ submitCalls' = [submitCalls EXCEPT ![c] = @ (+) SetToBag({
            [roomId |-> currentRoom[c], live |-> TRUE, stage |-> "create",
             q |-> tr[c].questionIndex, questionId |-> tr[c].currentQuestion,
             answer |-> answer, player |-> FindPlayer(tr[c].players, UserOf(c)),
             inTime |-> tr[c].timeLeft > 0]})]
    /\ Render(c, [tr[c] EXCEPT !.selectedAnswer = answer, !.hasAnswered = TRUE],
              nextTimers[c])
    /\ UNCHANGED <<user, lobbyVars, storeVars, currentRoom, loadCall, startCalls>>

isCorrect(call) == call.answer = correctAnswer(call.questionId)

\* What follows a call once its persistence is through: the 1000 ms reveal
\* timeout, which matters only while the component is mounted.
AfterPersist(c, call) ==
    IF call.live
    THEN (submitCalls[c] (-) SetToBag({call})) (+) SetToBag({[call EXCEPT !.stage = "reveal"]})
    ELSE submitCalls[c] (-) SetToBag({call})

\* submitAnswer: gameAnswers.create succeeded.
SubmitCreateDone(c, call) ==
    /\ BagIn(call, submitCalls[c])
    /\ call.stage = "create"
    /\ gameAnswers' = gameAnswers (+) SetToBag({
            [roomId |-> call.roomId, userId |-> UserOf(c),
             questionId |-> call.questionId, isCorrect |-> isCorrect(call)]})
    /\ submitCalls' = [submitCalls EXCEPT ![c] =
            IF isCorrect(call) /\ call.player.id # 0
            THEN (@ (-) SetToBag({call})) (+) SetToBag({[call EXCEPT !.stage = "update"]})
            ELSE AfterPersist(c, call)]
    /\ UNCHANGED <<user, lobbyVars, rooms, playersStore, currentRoom, tr, loadCall, startCalls,
                   nextTimers>>

\* The score submitAnswer writes: the score of the component's own copy of
\* the player record plus 100.
NewScore(call) == call.player.score + CorrectPoints

\* submitAnswer: players.update succeeded.
SubmitUpdateDone(c, call) ==
    /\ BagIn(call, submitCalls[c])
    /\ call.stage = "update"
    /\ playersStore' = [playersStore EXCEPT ![call.player.id].score = NewScore(call)]
    /\ submitCalls' = [submitCalls EXCEPT ![c] = AfterPersist(c, call)]
    /\ UNCHANGED <<user, lobbyVars, rooms, gameAnswers, currentRoom, tr, loadCall, startCalls,
                   nextTimers>>

\* submitAnswer: one of its two persistence calls threw; the catch only
\* raises a toast.
SubmitFail(c, call) ==
    /\ BagIn(call, submitCalls[c])
    /\ call.stage \in {"create", "update"}
    /\ submitCalls' = [submitCalls EXCEPT ![c] = @ (-) SetToBag({call})]
    /\ UNCHANGED <<user, lobbyVars, storeVars, currentRoom, tr, loadCall, startCalls, nextTimers>>

\* submitAnswer's 1000 ms timeout: show the results and schedule nextQuestion.
Reveal(c, call) ==
    /\ BagIn(call, submitCalls[c])
    /\ call.stage = "reveal"
    /\ submitCalls' = [submitCalls EXCEPT ![c] = @ (-) SetToBag({call})]
    /\ Render(c, [tr[c] EXCEPT !.showResults = TRUE],
              nextTimers[c] (+) SetToBag({call.q}))
    /\ UNCHANGED <<user, lobbyVars, storeVars, currentRoom, loadCall, startCalls>>

\* GameLobby's useState initial values.
InitialLobbyState ==
    [rooms |-> <<>>, loading |-> TRUE, creating |-> FALSE, joining |-> 0,
     newRoomName |-> <<>>, showCreateForm |-> FALSE]

\* Leave / Back to Lobby are rendered by the main and the finished view, not
\* by the loading view.
LeaveButtonShown(c) == Mounted(c) /\ ~tr[c].loading

\* Calls in flight outlive the component: they still reach the store, but
\* their setState calls and timeouts no longer touch any state.
Orphaned(calls) ==
    LET keep == {call \in BagToSet(calls) : "stage" \in DOMAIN call => call.stage # "reveal"}
        RECURSIVE Build(_)
        Build(S) == IF S = {} THEN EmptyBag
                    ELSE LET x == CHOOSE x \in S : TRUE
                         IN Build(S \ {x}) (+)
                            [y \in {[x EXCEPT !.live = FALSE]} |-> CopiesIn(x, calls)]
    IN Build(keep)

onLeaveRoom(c) ==
    /\ LeaveButtonShown(c)
    /\ currentRoom' = [currentRoom EXCEPT ![c] = 0]
    /\ tr' = [tr EXCEPT ![c] = InitialRoomState]
    /\ nextTimers' = [nextTimers EXCEPT ![c] = EmptyBag]
    /\ startCalls' = [startCalls EXCEPT ![c] = Orphaned(@)]
    /\ submitCalls' = [submitCalls EXCEPT ![c] = Orphaned(@)]
    /\ lobby' = [lobby EXCEPT ![c] = InitialLobbyState]
    /\ lobbyLoad' = [lobbyLoad EXCEPT ![c] = TRUE]
    /\ UNCHANGED <<user, storeVars, loadCall, createCalls, joinCalls>>

\* ------------------------------------------------------------- GameLobby
LobbyMounted(c) == currentRoom[c] = 0

\* String.prototype.trim on a name written as a sequence of characters.
RECURSIVE TrimLeft(_)
TrimLeft(s) == IF s # <<>> /\ Head(s) = " " THEN TrimLeft(Tail(s)) ELSE s

RECURSIVE TrimRight(_)
TrimRight(s) ==
    IF s # <<>> /\ s[Len(s)] = " " THEN TrimRight(SubSeq(s, 1, Len(s) - 1)) ELSE s

trim(s) == TrimRight(TrimLeft(s))

\* The names a user is drawn to type into the form.
NameInputs == {<<" ">>, <<"a", " ">>}

\* blink.db.rooms.list({where: {status: 'waiting'}, orderBy: {createdAt:
\* 'desc'}, limit: 10}): the ids of the waiting rooms, newest first.
RECURSIVE NewestFirst(_)
NewestFirst(S) ==
    IF S = {} THEN <<>>
    ELSE LET newest == CHOOSE i \in S : \A j \in S : i >= j
         IN <<newest>> \o NewestFirst(S \ {newest})

ListWaitingRooms ==
    LET ids == NewestFirst({r \in 1..Len(rooms) : rooms[r].status = "waiting"})
    IN SubSeq(ids, 1, Min(Len(ids), RoomLimit))

\* loadRooms: the list answers; finally setLoading(false).
LoadRoomsDone(c) ==
    /\ lobbyLoad[c]
    /\ lobbyLoad' = [lobbyLoad EXCEPT ![c] = FALSE]
    /\ lobby' = [lobby EXCEPT ![c].rooms = ListWaitingRooms, ![c].loading = FALSE]
    /\ UNCHANGED <<user, storeVars, currentRoom, roomVars, createCalls, joinCalls>>

\* loadRooms: the list throws; toast, finally setLoading(false).
LoadRoomsFail(c) ==
    /\ lobbyLoad[c]
    /\ lobbyLoad' = [lobbyLoad EXCEPT ![c] = FALSE]
    /\ lobby' = [lobby EXCEPT ![c].loading = FALSE]
    /\ UNCHANGED <<user, storeVars, currentRoom, roomVars, createCalls, joinCalls>>

\* The Create Room / Create First Room buttons: setShowCreateForm(true).
ShowCreateForm(c) ==
    /\ LobbyMounted(c)
    /\ ~lobby[c].showCreateForm
    /\ lobby' = [lobby EXCEPT ![c].showCreateForm = TRUE]
    /\ UNCHANGED <<user, storeVars, currentRoom, roomVars, lobbyLoad, createCalls, joinCalls>>

\* The name field's onChange.
SetNewRoomName(c, name) ==
    /\ LobbyMounted(c)
    /\ lobby[c].showCreateForm
    /\ lobby[c].newRoomName # name
    /\ lobby' = [lobby EXCEPT ![c].newRoomName = name]
    /\ UNCHANGED <<user, storeVars, currentRoom, roomVars, lobbyLoad, createCalls, joinCalls>>

\* The Cancel button.
CancelCreate(c) ==
    /\ LobbyMounted(c)
    /\ lobby[c].showCreateForm
    /\ lobby' = [lobby EXCEPT ![c].showCreateForm = FALSE, ![c].newRoomName = <<>>]
    /\ UNCHANGED <<user, storeVars, currentRoom, roomVars, lobbyLoad, createCalls, joinCalls>>

\* createRoom is called by the Create button, which creating disables, and
\* by the Enter key in the name field, which nothing disables.
CreateTriggers == {"button", "enter"}

CanTriggerCreate(c, via) ==
    /\ LobbyMounted(c)
    /\ lobby[c].showCreateForm
    /\ via = "button" => ~lobby[c].creating

\* Room records stored or about to be.
RoomsInFlight ==
    LET S == {<<c, call>> \in Clients \X UNION {BagToSet(createCalls[c]) : c \in Clients} :
                    BagIn(call, createCalls[c]) /\ call.stage = "room"}
        RECURSIVE Sum(_)
        Sum(T) == IF T = {} THEN 0
                  ELSE LET x == CHOOSE x \in T : TRUE
                       IN CopiesIn(x[2], createCalls[x[1]]) + Sum(T \ {x})
    IN Sum(S)

\* createRoom up to its await of blink.db.rooms.create.
createRoom(c, via) ==
    /\ CanTriggerCreate(c, via)
    /\ IF trim(lobby[c].newRoomName) = <<>>
       THEN UNCHANGED <<lobby, createCalls>>
       ELSE /\ Len(rooms) + RoomsInFlight < MaxRooms
            /\ lobby' = [lobby EXCEPT ![c].creating = TRUE]
            /\ createCalls' = [createCalls EXCEPT ![c] = @ (+) SetToBag({
                    [stage |-> "room", roomId |-> 0, live |-> TRUE,
                     name |-> trim(lobby[c].newRoomName)]})]
    /\ UNCHANGED <<user, storeVars, currentRoom, roomVars, lobbyLoad, joinCalls>>

\* Every call of the lobby's handlers loses its component.
OrphanedLobbyCalls(calls) ==
    LET RECURSIVE Build(_)
        Build(S) == IF S = {} THEN EmptyBag
                    ELSE LET x == CHOOSE x \in S : TRUE
                         IN Build(S \ {x}) (+)
                            [y \in {[x EXCEPT !.live = FALSE]} |-> CopiesIn(x, calls)]
    IN Build(BagToSet(calls))

\* onJoinRoom(room) = App's setCurrentRoom, called by handler h \in {"create",
\* "join"} whose call is taken out of its bag.  From the lobby it mounts
\* TriviaRoom (whose effect starts loadGameData) and unmounts GameLobby; with
\* a room view already mounted it only replaces the room prop, and
\* loadGameData runs again if room.id changed.
onJoinRoom(c, r, h, call) ==
    /\ currentRoom' = [currentRoom EXCEPT ![c] = r]
    /\ IF currentRoom[c] = 0
       THEN /\ tr' = [tr EXCEPT ![c] = InitialRoomState]
            /\ loadCall' = [loadCall EXCEPT ![c] = "players"]
       ELSE /\ tr' = tr
            /\ loadCall' = [loadCall EXCEPT ![c] = IF currentRoom[c] # r THEN "players" ELSE @]
    /\ lobby' = [lobby EXCEPT ![c] = InitialLobbyState]
    /\ lobbyLoad' = [lobbyLoad EXCEPT ![c] = FALSE]
    /\ createCalls' = [createCalls EXCEPT ![c] =
            OrphanedLobbyCalls(IF h = "create" THEN @ (-) SetToBag({call}) ELSE @)]
    /\ joinCalls' = [joinCalls EXCEPT ![c] =
            OrphanedLobbyCalls(IF h = "join" THEN @ (-) SetToBag({call}) ELSE @)]
    /\ UNCHANGED <<startCalls, submitCalls, nextTimers>>

\* createRoom: rooms.create succeeded; next it awaits players.create.
CreateRoomDone(c, call) ==
    /\ BagIn(call, createCalls[c])
    /\ call.stage = "room"
    /\ rooms' = Append(rooms, [name |-> call.name, hostUserId |-> UserOf(c),
                               status |-> "waiting"])
    /\ createCalls' = [createCalls EXCEPT ![c] = (@ (-) SetToBag({call})) (+)
            SetToBag({[call EXCEPT !.stage = "player", !.roomId = Len(rooms) + 1]})]
    /\ UNCHANGED <<user, playersStore, gameAnswers, currentRoom, roomVars, lobby,
                   lobbyLoad, joinCalls>>

\* The record both createRoom and joinRoom create for the user.
NewPlayer(c, r) == [roomId |-> r, userId |-> UserOf(c), score |-> 0]

\* createRoom: players.create succeeded; toast, onJoinRoom(room), finally.
CreatePlayerDone(c, call) ==
    /\ BagIn(call, createCalls[c])
    /\ call.stage = "player"
    /\ playersStore' = Append(playersStore, NewPlayer(c, call.roomId))
    /\ onJoinRoom(c, call.roomId, "create", call)
    /\ UNCHANGED <<user, rooms, gameAnswers>>

\* The finally block of createRoom, for a call of the mounted lobby.
CreateFinally(s) ==
    [s EXCEPT !.creating = FALSE, !.newRoomName = <<>>, !.showCreateForm = FALSE]

\* createRoom: rooms.create or players.create threw; toast, finally.
CreateFail(c, call) ==
    /\ BagIn(call, createCalls[c])
    /\ createCalls' = [createCalls EXCEPT ![c] = @ (-) SetToBag({call})]
    /\ lobby' = [lobby EXCEPT ![c] =
            IF call.live THEN CreateFinally(@) ELSE @]
    /\ UNCHANGED <<user, storeVars, currentRoom, roomVars, lobbyLoad, joinCalls>>

\* The Join Game button of a listed room is disabled while joining holds
\* that room's id.
JoinButtonEnabled(c, r) ==
    /\ LobbyMounted(c)
    /\ ~lobby[c].loading
    /\ \E k \in 1..Len(lobby[c].rooms) : lobby[c].rooms[k] = r
    /\ lobby[c].joining # r

\* joinRoom up to its await of blink.db.players.list.
joinRoom(c, r) ==
    /\ JoinButtonEnabled(c, r)
    /\ BagCardinality(joinCalls[c]) < MaxJoinCalls
    /\ lobby' = [lobby EXCEPT ![c].joining = r]
    /\ joinCalls' = [joinCalls EXCEPT ![c] = @ (+) SetToBag({
            [stage |-> "check", roomId |-> r, live |-> TRUE]})]
    /\ UNCHANGED <<user, storeVars, currentRoom, roomVars, lobbyLoad, createCalls>>

\* players.list({where: {AND: [{roomId}, {userId}]}, limit: 1}) is empty.
NoExistingPlayer(c, r) ==
    ~\E i \in 1..Len(playersStore) :
        playersStore[i].roomId = r /\ playersStore[i].userId = UserOf(c)

\* joinRoom: the list answers with no record; next it awaits players.create.
JoinCheckDoneNew(c, call) ==
    /\ BagIn(call, joinCalls[c])
    /\ call.stage = "check"
    /\ NoExistingPlayer(c, call.roomId)
    /\ joinCalls' = [joinCalls EXCEPT ![c] = (@ (-) SetToBag({call})) (+)
            SetToBag({[call EXCEPT !.stage = "create"]})]
    /\ UNCHANGED <<user, storeVars, currentRoom, roomVars, lobby, lobbyLoad, createCalls>>

\* joinRoom: the list answers with the user's record; toast, onJoinRoom.
JoinCheckDoneExisting(c, call) ==
    /\ BagIn(call, joinCalls[c])
    /\ call.stage = "check"
    /\ ~NoExistingPlayer(c, call.roomId)
    /\ onJoinRoom(c, call.roomId, "join", call)
    /\ UNCHANGED <<user, storeVars>>

\* joinRoom: players.create succeeded; toast, onJoinRoom(room), finally.
JoinCreateDone(c, call) ==
    /\ BagIn(call, joinCalls[c])
    /\ call.stage = "create"
    /\ playersStore' = Append(playersStore, NewPlayer(c, call.roomId))
    /\ onJoinRoom(c, call.roomId, "join", call)
    /\ UNCHANGED <<user, rooms, gameAnswers>>

\* joinRoom: players.list or players.create threw; toast, finally
\* setJoining(null).
JoinFail(c, call) ==
    /\ BagIn(call, joinCalls[c])
    /\ joinCalls' = [joinCalls EXCEPT ![c] = @ (-) SetToBag({call})]
    /\ lobby' = [lobby EXCEPT ![c] =
            IF call.live THEN [@ EXCEPT !.joining = 0] ELSE @]
    /\ UNCHANGED <<user, storeVars, currentRoom, roomVars, lobbyLoad, createCalls>>

\* ------------------------------------------------------------------ Spec
\* The state of a room view whose loadGameData went through while the store
\* held the two player records of Init.
LoadedRoomState ==
    [InitialRoomState EXCEPT
        !.players = <<[id |-> 1, userId |-> "u1", score |-> 0],
                      [id |-> 2, userId |-> "u2", score |-> 0]>>,
        !.questions = ListQuestions,
        !.currentQuestion = IF Len(ListQuestions) > 0 THEN ListQuestions[1] ELSE 0,
        !.loading = FALSE]

\* One room, created by u1 and joined by u2.  The guest's session c2 is in
\* the room and has loaded its data; the host's session c1 has just entered
\* (TriviaRoom has mounted and its loadGameData is in flight).
Init ==
    /\ user = [c \in Clients |-> IF c = "c1" THEN "u1" ELSE "u2"]
    /\ rooms = <<[name |-> <<"a">>, hostUserId |-> "u1", status |-> "waiting"]>>
    /\ playersStore = <<[roomId |-> 1, userId |-> "u1", score |-> 0],
                        [roomId |-> 1, userId |-> "u2", score |-> 0]>>
    /\ gameAnswers = EmptyBag
    /\ currentRoom = [c \in Clients |-> 1]
    /\ tr = [c \in Clients |-> IF c = "c1" THEN InitialRoomState ELSE LoadedRoomState]
    /\ loadCall = [c \in Clients |-> IF c = "c1" THEN "players" ELSE "none"]
    /\ startCalls = [c \in Clients |-> EmptyBag]
    /\ submitCalls = [c \in Clients |-> EmptyBag]
    /\ nextTimers = [c \in Clients |-> EmptyBag]
    /\ lobby = [c \in Clients |-> InitialLobbyState]
    /\ lobbyLoad = [c \in Clients |-> FALSE]
    /\ createCalls = [c \in Clients |-> EmptyBag]
    /\ joinCalls = [c \in Clients |-> EmptyBag]

\* The steps in which every persistence call succeeds.
OkNext ==
    \E c \in Clients :
        \/ LoadPlayersDone(c)
        \/ LoadQuestionsDone(c)
        \/ startGame(c)
        \/ \E call \in BagToSet(startCalls[c]) : StartGameDone(c, call)
        \/ Tick(c)
        \/ \E answer \in AnswerInputs : submitAnswer(c, answer)
        \/ \E call \in BagToSet(submitCalls[c]) : SubmitCreateDone(c, call)
        \/ \E call \in BagToSet(submitCalls[c]) : SubmitUpdateDone(c, call)
        \/ \E call \in BagToSet(submitCalls[c]) : Reveal(c, call)
        \/ \E q \in BagToSet(nextTimers[c]) : nextQuestion(c, q)
        \/ onLeaveRoom(c)

\* The steps in which a persistence call throws.
FailNext ==
    \E c \in Clients :
        \/ LoadFail(c)
        \/ \E call \in BagToSet(startCalls[c]) : StartGameFail(c, call)
        \/ \E call \in BagToSet(submitCalls[c]) : SubmitFail(c, call)

Next == OkNext \/ FailNext

Spec == Init /\ [][Next]_vars

\* The behaviours in which every persistence call succeeds.
OkSpec == Init /\ [][OkNext]_vars

\* The lobby: no room yet, every session in the lobby with loadRooms in
\* flight; the second session is signed in as the same or as another user.
LobbyInit ==
    /\ user \in {u \in [Clients -> Users] : u["c1"] = "u1"}
    /\ rooms = <<>>
    /\ playersStore = <<>>
    /\ gameAnswers = EmptyBag
    /\ currentRoom = [c \in Clients |-> 0]
    /\ tr = [c \in Clients |-> InitialRoomState]
    /\ loadCall = [c \in Clients |-> "none"]
    /\ startCalls = [c \in Clients |-> EmptyBag]
    /\ submitCalls = [c \in Clients |-> EmptyBag]
    /\ nextTimers = [c \in Clients |-> EmptyBag]
    /\ lobby = [c \in Clients |-> InitialLobbyState]
    /\ lobbyLoad = [c \in Clients |-> TRUE]
    /\ createCalls = [c \in Clients |-> EmptyBag]
    /\ joinCalls = [c \in Clients |-> EmptyBag]

\* The lobby's steps in which every persistence call succeeds.  A session
\* that has entered a room takes no further step of its own here; the calls
\* it left in flight are still answered.
LobbyOkNext ==
    \E c \in Clients :
        \/ LoadRoomsDone(c)
        \/ ShowCreateForm(c)
        \/ \E name \in NameInputs : SetNewRoomName(c, name)
        \/ CancelCreate(c)
        \/ \E via \in CreateTriggers : createRoom(c, via)
        \/ \E call \in BagToSet(createCalls[c]) : CreateRoomDone(c, call)
        \/ \E call \in BagToSet(createCalls[c]) : CreatePlayerDone(c, call)
        \/ \E r \in 1..Len(rooms) : joinRoom(c, r)
        \/ \E call \in BagToSet(joinCalls[c]) : JoinCheckDoneNew(c, call)
        \/ \E call \in BagToSet(joinCalls[c]) : JoinCheckDoneExisting(c, call)
        \/ \E call \in BagToSet(joinCalls[c]) : JoinCreateDone(c, call)

\* The lobby's steps in which a persistence call throws.
LobbyFailNext ==
    \E c \in Clients :
        \/ LoadRoomsFail(c)
        \/ \E call \in BagToSet(createCalls[c]) : CreateFail(c, call)
        \/ \E call \in BagToSet(joinCalls[c]) : JoinFail(c, call)

LobbySpec == LobbyInit /\ [][LobbyOkNext \/ LobbyFailNext]_vars

\* Timeouts fire and calls in flight are answered; what the user does (start,
\* answer, leave) is under no obligation.
Scheduled(c) ==
    \/ LoadPlayersDone(c)
    \/ LoadQuestionsDone(c)
    \/ \E call \in BagToSet(startCalls[c]) : StartGameDone(c, call)
    \/ Tick(c)
    \/ \E call \in BagToSet(submitCalls[c]) : SubmitCreateDone(c, call)
    \/ \E call \in BagToSet(submitCalls[c]) : SubmitUpdateDone(c, call)
    \/ \E call \in BagToSet(submitCalls[c]) : Reveal(c, call)
    \/ \E q \in BagToSet(nextTimers[c]) : nextQuestion(c, q)

FairOkSpec == OkSpec /\ \A c \in Clients : WF_vars(Scheduled(c))

\* Joining a room that is about to start: room 1 was created by u1, whose
\* session c1 is in its loaded room view; u2's session c2 is in the lobby
\* with loadRooms in flight.
JoinInit ==
    /\ user = [c \in Clients |-> IF c = "c1" THEN "u1" ELSE "u2"]
    /\ rooms = <<[name |-> <<"a">>, hostUserId |-> "u1", status |-> "waiting"]>>
    /\ playersStore = <<[roomId |-> 1, userId |-> "u1", score |-> 0]>>
    /\ gameAnswers = EmptyBag
    /\ currentRoom = [c \in Clients |-> IF c = "c1" THEN 1 ELSE 0]
    /\ tr = [c \in Clients |->
                IF c = "c1"
                THEN [LoadedRoomState EXCEPT
                        !.players = <<[id |-> 1, userId |-> "u1", score |-> 0]>>]
                ELSE InitialRoomState]
    /\ loadCall = [c \in Clients |-> "none"]
    /\ startCalls = [c \in Clients |-> EmptyBag]
    /\ submitCalls = [c \in Clients |-> EmptyBag]
    /\ nextTimers = [c \in Clients |-> EmptyBag]
    /\ lobby = [c \in Clients |-> InitialLobbyState]
    /\ lobbyLoad = [c \in Clients |-> c = "c2"]
    /\ createCalls = [c \in Clients |-> EmptyBag]
    /\ joinCalls = [c \in Clients |-> EmptyBag]

\* The lobby's list and join steps together with the room's load, start,
\* countdown and leave steps; every persistence call succeeds.
JoinNext ==
    \E c \in Clients :
        \/ LoadRoomsDone(c)
        \/ \E r \in 1..Len(rooms) : joinRoom(c, r)
        \/ \E call \in BagToSet(joinCalls[c]) : JoinCheckDoneNew(c, call)
        \/ \E call \in BagToSet(joinCalls[c]) : JoinCheckDoneExisting(c, call)
        \/ \E call \in BagToSet(joinCalls[c]) : JoinCreateDone(c, call)
        \/ LoadPlayersDone(c)
        \/ LoadQuestionsDone(c)
        \/ startGame(c)
        \/ \E call \in BagToSet(startCalls[c]) : StartGameDone(c, call)
        \/ Tick(c)
        \/ onLeaveRoom(c)

JoinSpec == JoinInit /\ [][JoinNext]_vars

\* ---------------------------------------------------------------- claims
InRoomView(c) == Mounted(c) /\ ~tr[c].loading

\* The client stays in the same room view over the step.
StaysInRoom(c) == currentRoom[c] # 0 /\ currentRoom'[c] = currentRoom[c]

\* C1: in a room view gameStatus changes only waiting -> playing (by a
\* successful startGame) and playing -> finished (by nextQuestion), and once
\* 'finished' it never changes again.
C1_StatusLinear ==
    [][\A c \in Clients : StaysInRoom(c) =>
        LET g == tr[c].gameStatus
            h == tr'[c].gameStatus
        IN  h # g =>
              \/ /\ g = "waiting" /\ h = "playing"
                 /\ \E call \in BagToSet(startCalls[c]) : StartGameDone(c, call)
              \/ /\ g = "playing" /\ h = "finished"
                 /\ \E q \in BagToSet(nextTimers[c]) :
                        nextQuestion(c, q) /\ q + 1 >= Len(tr[c].questions)]_vars

\* The gameAnswers records of user u in room r with isCorrect = TRUE.
CorrectAnswers(u, r) ==
    LET S == {a \in BagToSet(gameAnswers) : a.userId = u /\ a.roomId = r /\ a.isCorrect}
        RECURSIVE Sum(_)
        Sum(T) == IF T = {} THEN 0
                  ELSE LET x == CHOOSE x \in T : TRUE
                       IN CopiesIn(x, gameAnswers) + Sum(T \ {x})
    IN Sum(S)

\* No submitAnswer of client c is still writing to the store.
SubmitsSettled(c) ==
    \A call \in BagToSet(submitCalls[c]) : call.stage \notin {"create", "update"}

\* Player records are created with score 0 (createRoom, joinRoom).
JoinScore == 0

\* C2: once a user's answers are persisted, the stored score of the user's
\* player record is the score at joining plus 100 for every gameAnswers
\* record of that user and room with isCorrect = TRUE.
C2_ScoreCountsCorrectAnswers ==
    \A c \in Clients : \A i \in 1..Len(playersStore) :
        (/\ SubmitsSettled(c)
         /\ playersStore[i].userId = UserOf(c)
         /\ playersStore[i].roomId = 1)
        => playersStore[i].score
             = JoinScore + CorrectPoints * CorrectAnswers(UserOf(c), 1)

\* C3: once the room record has status 'playing', every client in that room's
\* view that is not the host eventually has gameStatus 'playing' (or leaves).
C3_GuestsEventuallyPlay ==
    \A c \in Clients :
        (rooms[1].status = "playing" /\ currentRoom[c] = 1 /\ ~isHost(c))
            ~> (currentRoom[c] # 1 \/ tr[c].gameStatus = "playing")

\* C4: a startGame call is issued only by the host's client, in a loaded room
\* view whose gameStatus is 'waiting'; and a room record gets status 'playing'
\* only by a startGame call of a client of its host.
C4_OnlyHostStarts ==
    [][/\ \A c \in Clients :
            BagCardinality(startCalls'[c]) > BagCardinality(startCalls[c])
            => /\ UserOf(c) = rooms[currentRoom[c]].hostUserId
               /\ tr[c].gameStatus = "waiting"
               /\ ~tr[c].loading
       /\ \A r \in 1..Len(rooms) :
            (rooms[r].status # "playing" /\ rooms'[r].status = "playing")
            => \E c \in Clients :
                /\ UserOf(c) = rooms[r].hostUserId
                /\ BagCardinality(startCalls'[c]) < BagCardinality(startCalls[c])]_vars

\* C4's case: the host has started the game while a guest is in the room.
C4_Witness ==
    /\ rooms[1].status = "playing"
    /\ tr["c1"].gameStatus = "playing"
    /\ InRoomView("c2") /\ ~isHost("c2")
    /\ startCalls["c2"] = EmptyBag

\* C5: during a game questionIndex changes only by +1 and stays below
\* questions.length.
C5_IndexAdvancesByOne ==
    [][\A c \in Clients :
        (StaysInRoom(c) /\ tr[c].gameStatus = "playing") =>
            /\ \/ tr'[c].questionIndex = tr[c].questionIndex
               \/ tr'[c].questionIndex = tr[c].questionIndex + 1
            /\ tr'[c].questionIndex < Len(tr'[c].questions)]_vars

\* C6: a client whose gameStatus is 'playing' eventually reaches 'finished'
\* (or leaves the room), every persistence call succeeding and timers fair.
C6_EventuallyFinished ==
    \A c \in Clients :
        (Mounted(c) /\ tr[c].gameStatus = "playing")
            ~> (~Mounted(c) \/ tr[c].gameStatus = "finished")

TimedOut(c) ==
    /\ InRoomView(c)
    /\ tr[c].gameStatus = "playing"
    /\ tr[c].currentQuestion # 0
    /\ tr[c].timeLeft = 0
    /\ tr[c].showResults

\* There is a gameAnswers record, stored or being created, of client c's
\* answer to the question it is showing.
AnswerRecorded(c) ==
    \/ \E call \in BagToSet(submitCalls[c]) :
            /\ call.stage = "create"
            /\ call.questionId = tr[c].currentQuestion
            /\ call.answer = tr[c].selectedAnswer
    \/ \E a \in BagToSet(gameAnswers) :
            /\ a.roomId = currentRoom[c]
            /\ a.userId = UserOf(c)
            /\ a.questionId = tr[c].currentQuestion
            /\ a.isCorrect = (tr[c].selectedAnswer = correctAnswer(tr[c].currentQuestion))

\* C8: submitAnswer is open during the reveal of a timed-out question (while
\* the store takes answers at all), and an answer given then is recorded and,
\* when correct, earns the +100 score.
C8_LateAnswerAccepted ==
    \A c \in Clients :
        /\ (/\ TimedOut(c)
            /\ ~tr[c].hasAnswered
            /\ BagCardinality(gameAnswers) + AnswersInFlight < MaxAnswers)
           => \A answer \in AnswerInputs : ENABLED submitAnswer(c, answer)
        /\ (TimedOut(c) /\ tr[c].hasAnswered)
           => /\ AnswerRecorded(c)
              /\ (/\ SubmitsSettled(c)
                  /\ tr[c].selectedAnswer = correctAnswer(tr[c].currentQuestion))
                 => LET p == FindPlayer(tr[c].players, UserOf(c))
                    IN playersStore[p.id].score = p.score + CorrectPoints

\* C8's case: a correct answer given after the countdown reached 0 is stored
\* and the score is written.
C8_Witness ==
    \E c \in Clients :
        /\ TimedOut(c)
        /\ tr[c].hasAnswered
        /\ SubmitsSettled(c)
        /\ tr[c].selectedAnswer = correctAnswer(tr[c].currentQuestion)
        /\ CorrectAnswers(UserOf(c), currentRoom[c]) = 1
        /\ playersStore[FindPlayer(tr[c].players, UserOf(c)).id].score = CorrectPoints

\* C10: the final leaderboard shows every player's stored score.
C10_LeaderboardShowsStoredScores ==
    \A c \in Clients :
        (InRoomView(c) /\ tr[c].gameStatus = "finished")
        => \A k \in 1..Len(tr[c].players) :
                tr[c].players[k].score = playersStore[tr[c].players[k].id].score

\* C9: the players store holds at most one record per (roomId, userId).
C9_OnePlayerPerRoomAndUser ==
    \A i, j \in 1..Len(playersStore) :
        (/\ playersStore[i].roomId = playersStore[j].roomId
         /\ playersStore[i].userId = playersStore[j].userId)
        => i = j

\* The gameAnswers records of user u, room r and question qid.
AnswersTo(u, r, qid) ==
    LET S == {a \in BagToSet(gameAnswers) :
                    a.userId = u /\ a.roomId = r /\ a.questionId = qid}
        RECURSIVE Sum(_)
        Sum(T) == IF T = {} THEN 0
                  ELSE LET x == CHOOSE x \in T : TRUE
                       IN CopiesIn(x, gameAnswers) + Sum(T \ {x})
    IN Sum(S)

\* C11: the store holds at most one gameAnswers record per user, room and
\* question.
C11_OneAnswerPerQuestion ==
    \A u \in Users : \A r \in 1..Len(rooms) : \A qid \in 1..NumQuestions :
        AnswersTo(u, r, qid) <= 1

\* C12: when a persistence call of submitAnswer fails for an answer given
\* while timeLeft > 0, the component state stays as it is with hasAnswered
\* true, and neither a reveal nor a nextQuestion is pending for that client.
C12_FailedSubmitFreezes ==
    [][\A c \in Clients : \A call \in BagToSet(submitCalls[c]) :
        (SubmitFail(c, call) /\ call.live /\ call.inTime)
        => /\ tr'[c] = tr[c]
           /\ tr[c].hasAnswered
           /\ tr[c].gameStatus = "playing"
           /\ nextTimers'[c] = EmptyBag
           /\ \A other \in BagToSet(submitCalls'[c]) : other.stage # "reveal"]_vars

\* C13: a nextQuestion call that does not move questionIndex leaves the state
\* of the question being presented alone: timeLeft, hasAnswered and
\* selectedAnswer keep their values and showResults is not taken back.
C13_QuestionClosedOnce ==
    [][\A c \in Clients : \A q \in BagToSet(nextTimers[c]) :
        (/\ nextQuestion(c, q)
         /\ tr[c].gameStatus = "playing"
         /\ tr'[c].questionIndex = tr[c].questionIndex)
        => /\ tr'[c].timeLeft = tr[c].timeLeft
           /\ tr'[c].hasAnswered = tr[c].hasAnswered
           /\ tr'[c].selectedAnswer = tr[c].selectedAnswer
           /\ tr'[c].currentQuestion = tr[c].currentQuestion
           /\ tr[c].showResults => tr'[c].showResults]_vars

\* The players.create of the createRoom call that created room r is still in
\* flight.
HostPlayerPending(r) ==
    \E c \in Clients : \E call \in BagToSet(createCalls[c]) :
        call.stage = "player" /\ call.roomId = r

\* C14: once createRoom is through with a room, the players store holds a
\* record of that room for the room's hostUserId.
C14_RoomHasHostPlayer ==
    \A r \in 1..Len(rooms) :
        ~HostPlayerPending(r)
        => \E i \in 1..Len(playersStore) :
                /\ playersStore[i].roomId = r
                /\ playersStore[i].userId = rooms[r].hostUserId

\* loadGameData of client c's room view has failed.
LoadFailed(c) == Mounted(c) /\ loadCall[c] = "failed"

\* C15: after a failed loadGameData the view is the loading view, which
\* offers no start, answer or leave action, and as long as the client is in
\* that room nothing changes its component state.
C15_FailedLoadStaysLoading ==
    /\ [](\A c \in Clients :
            LoadFailed(c)
            => /\ tr[c].loading
               /\ ~ENABLED startGame(c)
               /\ \A answer \in AnswerInputs : ~ENABLED submitAnswer(c, answer)
               /\ ~ENABLED onLeaveRoom(c))
    /\ [][\A c \in Clients :
            LoadFailed(c) => (LoadFailed(c)' /\ tr'[c] = tr[c])]_vars

\* C15's case: the host's players list went through and its questions list
\* failed, while the guest is in the loaded room view.
C15_Witness ==
    /\ LoadFailed("c1")
    /\ tr["c1"].players # <<>>
    /\ InRoomView("c2")

\* C16: while gameStatus = 'playing', showResults is true only if the player
\* has answered the question being presented or its timeLeft is 0.
C16_ResultsOnlyWhenClosed ==
    \A c \in Clients :
        (InRoomView(c) /\ tr[c].gameStatus = "playing" /\ tr[c].showResults)
        => (tr[c].hasAnswered \/ tr[c].timeLeft = 0)

\* C17: joinRoom's players.create stores a record only for a room whose
\* stored status is 'waiting' at that moment.
C17_JoinOnlyWhileWaiting ==
    [][\A c \in Clients : \A call \in BagToSet(joinCalls[c]) :
        JoinCreateDone(c, call) => rooms[call.roomId].status = "waiting"]_vars

\* C18: a client in the lobby has at most one createRoom call in flight.
C18_OneCreateInFlight ==
    \A c \in Clients :
        LobbyMounted(c) => BagCardinality(createCalls[c]) <= 1

\* A name that is empty or consists of spaces only.
Blank(s) == \A i \in 1..Len(s) : s[i] = " "

\* createRoom called by client c with the name now in the form changes no
\* store, no call in flight, no room membership and no form state.
CreateChangesNothing(c, via) == ~ENABLED (createRoom(c, via) /\ vars' # vars)

\* C19: createRoom with a blank name changes nothing (no room, no player, no
\* room entered, form state as it was) and creating is false after it.
C19_BlankNameCreatesNothing ==
    \A c \in Clients : \A via \in CreateTriggers :
        (CanTriggerCreate(c, via) /\ Blank(lobby[c].newRoomName))
        => /\ CreateChangesNothing(c, via)
           /\ ~lobby[c].creating

====
